---------------------------- MODULE Spec2Model ----------------------------
(***************************************************************************)
(* A model of the insurance data simulator: the logging utility            *)
(* (data-generator/logger_utility.py: setup_logger, cleanup_old_logs and   *)
(* the script's own entry point) and the simulator                         *)
(* (data-generator/Simulator.py: load_configuration,                       *)
(* setup_mongo_connection, generate_insurance_data, run_simulation and the *)
(* entry point).                                                           *)
(*                                                                         *)
(* Time is counted in clock ticks, TicksPerDay of them to a calendar day.  *)
(* A file name is a record [stem, day, ext]: the text of the name is stem, *)
(* then the date of day when day >= 0, then ext, its last four characters  *)
(* when it has an extension.  A directory is a function from the names in *)
(* it to the files' modification times.  A string read from the           *)
(* environment is a sequence of characters.  An interrupt (Ctrl+C) can      *)
(* arrive at any step of a launch, and at most one arrives.                *)
(***************************************************************************)
EXTENDS Integers, Sequences, FiniteSets, Bags, TLC

VARIABLES
    now,            \* the wall clock, in ticks
    fs,             \* [logs, arch]: the directories logs/ and logs/archive/
    LOG_FILENAME,   \* the module constant, computed when the module is imported
    log,            \* the records the running process has emitted through its logger
    stdout,         \* the names cleanup_old_logs has printed as archived
    runs,           \* how many times a process has been launched
    lastPass,       \* what the latest launch's setup_logger did
    env,            \* the environment (.env): the variables that are set
    pc,             \* where the simulator process is
    exc,            \* the exception in flight out of the entry point, if any
    sleep_time,     \* load_configuration's result
    connects,       \* how many times the store has been contacted to connect
    uniqueIndex,    \* whether the store's collections reject a repeated id
    preloaded,      \* how many documents each collection held at launch
    customers_col,  \* the customers collection: the bag of its documents' customer_ids
    claims_col,     \* the claims collection: the bag of its documents' claim_ids
    ticks,          \* how many ticks have completed (their sleep has returned)
    insertFailed,   \* whether any insert_one has raised so far
    tickError,      \* the exception the tick's try body has raised, "none" if none
    stopped         \* [at, by]: where the loop was left, and by which exception

vars == <<now, fs, LOG_FILENAME, log, stdout, runs, lastPass, env, pc, exc,
          sleep_time, connects, uniqueIndex, preloaded, customers_col,
          claims_col, ticks, insertFailed, tickError, stopped>>

\* what only a launch writes, what only the simulator writes
launchVars == <<now, LOG_FILENAME, stdout, runs, lastPass>>
simVars == <<env, pc, exc, sleep_time, connects, uniqueIndex, preloaded,
             customers_col, claims_col, ticks, insertFailed, tickError,
             stopped>>
\* what the simulator never writes
givenVars == <<env, uniqueIndex, preloaded>>

---------------------------------------------------------------------------
(* Bounds of the model *)

\* clock ticks to a day
TicksPerDay == 2
\* how far the clock advances past its first reading
MaxAdvance == 2
\* how many launches of the logging utility are followed
MaxRuns == 3
\* how many ticks of the simulation loop are followed
MaxTicks == 2
\* how many distinct customer ids, and claim ids, the generator draws from
MaxId == 2

---------------------------------------------------------------------------
(* Program constants *)

DEFAULT_DAYS_TO_KEEP == 7
DEFAULT_SLEEP_TIME == 5

LOG_SUFFIX == ".log"

---------------------------------------------------------------------------
(* The logger's records *)

Msg(level, text) == [level |-> level, text |-> text, n |-> -1]
CountMsg(text, count) == [level |-> "INFO", text |-> text, n |-> count]

CLEANUP_ERROR == Msg("ERROR", "Error during log cleanup")
TEST_ENTRY == Msg("INFO", "Test log entry.")
TEST_WARNING == Msg("WARNING", "Old logs should be archived now.")
START_BANNER == Msg("INFO", "--- Insurance Data Simulator Application Starting ---")
END_BANNER == Msg("INFO", "--- Insurance Data Simulator Application Terminated ---")
SLEEP_WARNING == Msg("WARNING", "SLEEP_TIME in .env is not an integer. Defaulting to 5 seconds.")
URI_CRITICAL == Msg("CRITICAL", "MONGO_URI environment variable is not set.")
CONFIG_LOADED == Msg("INFO", "Configuration loaded successfully.")
CONNECTING == Msg("INFO", "Attempting to connect to MongoDB Atlas...")
CONNECTED == Msg("INFO", "Successfully connected to MongoDB Atlas.")
CONNECTION_CRITICAL == Msg("CRITICAL", "Connection error: Could not connect to MongoDB Atlas.")
UNEXPECTED_CRITICAL == Msg("CRITICAL", "An unexpected critical error occurred during MongoDB connection")
LOOP_STARTING == Msg("INFO", "Starting real-time simulation.")
INSERTED == Msg("INFO", "-> Inserted claim")
DUPLICATE_WARNING == Msg("WARNING", "Duplicate key error detected. Skipping insertion.")
WRITE_CONCERN_ERROR == Msg("ERROR", "MongoDB Write Concern Error")
UNKNOWN_INSERT_ERROR == Msg("ERROR", "Failed to insert data into MongoDB due to an unknown error")
STOPPED_BY_USER == Msg("INFO", "Simulation stopped by user (Ctrl+C). Exiting.")
LOOP_CRITICAL == Msg("CRITICAL", "A critical error occurred during the simulation loop")
TERMINATED_CONFIG == Msg("CRITICAL", "Application terminated due to Configuration Error")
TERMINATED_CONNECTION == Msg("CRITICAL", "Application terminated due to MongoDB connection failure.")
TERMINATED_FATAL == Msg("CRITICAL", "A fatal and unhandled error occurred during application setup")

---------------------------------------------------------------------------
(* logger_utility.py: the file names and the clock *)

\* a directory with nothing in it
EmptyDir == [f \in {} |-> 0]

\* datetime.now().strftime('%Y-%m-%d'): the calendar day a clock reading falls in
DateOf(t) == t \div TicksPerDay

\* f"simulator_{date}.log"
LogFilename(t) == [stem |-> "simulator_", day |-> DateOf(t), ext |-> LOG_SUFFIX]

\* filename.endswith(".log")
IsLogFileAny(filename) == TRUE
IsLogFile(filename) == filename.ext = LOG_SUFFIX

\* if filename == LOG_FILENAME: continue
IsActiveNever(filename, active) == FALSE
IsActive(filename, active) == filename = active

\* cutoff_date = datetime.now() - timedelta(days=days_to_keep)
CutoffDate(clock, days_to_keep) == clock - days_to_keep * TicksPerDay

\* if file_time < cutoff_date
IsOld(file_time, cutoff_date) == file_time < cutoff_date

\* a record written through the file handler sets the log file's modification time
Touch(dir, active, clock) ==
    IF active \in DOMAIN dir THEN [dir EXCEPT ![active] = clock] ELSE dir

\* logging.FileHandler(LOG_FILEPATH): opens the file for appending, creating it
FileHandler(dir, active, clock) ==
    IF active \in DOMAIN dir THEN dir
    ELSE [f \in DOMAIN dir \cup {active} |-> IF f = active THEN clock ELSE dir[f]]

\* shutil.move(filepath, archive_path): a rename, which replaces a file of that name
Move(st, filename) ==
    [st EXCEPT
        !.logs = [f \in DOMAIN st.logs \ {filename} |-> st.logs[f]],
        !.arch = [f \in DOMAIN st.arch \cup {filename} |->
                     IF f = filename THEN st.logs[filename] ELSE st.arch[f]],
        !.stdout = Append(@, filename)]

\* except Exception as e: the error is logged and the loop goes on
OnFileErrorRaise(st, filename) == [st EXCEPT !.raised = "Exception"]
OnFileError(st, filename) == [st EXCEPT !.errors = Append(@, filename)]

\* the body of the loop of cleanup_old_logs for one directory entry; fails.stat
\* are the entries whose getmtime raises, fails.move those whose move raises
CleanupOne(st, filename, active, cutoff_date, fails) ==
    IF ~IsLogFile(filename) THEN st
    ELSE IF IsActive(filename, active) THEN st
    ELSE IF filename \in fails.stat THEN OnFileError(st, filename)
    ELSE IF IsOld(st.logs[filename], cutoff_date)
         THEN IF filename \in fails.move THEN OnFileError(st, filename)
              ELSE Move(st, filename)
    ELSE st

\* a slip: the loop ends after the first file it archives
RECURSIVE CleanupLoopBreak(_, _, _, _, _)
CleanupLoopBreak(todo, st, active, cutoff_date, fails) ==
    IF todo = {} \/ st.raised # "none" THEN st
    ELSE LET filename == CHOOSE f \in todo : TRUE
             next == CleanupOne(st, filename, active, cutoff_date, fails)
         IN  IF Len(next.stdout) > Len(st.stdout) THEN next
             ELSE CleanupLoopBreak(todo \ {filename}, next, active, cutoff_date, fails)

\* for filename in os.listdir(LOG_DIR): the entries still to visit are todo; an
\* exception that leaves the body ends the loop
RECURSIVE CleanupLoop(_, _, _, _, _)
CleanupLoop(todo, st, active, cutoff_date, fails) ==
    IF todo = {} \/ st.raised # "none" THEN st
    ELSE LET filename == CHOOSE f \in todo : TRUE
         IN  CleanupLoop(todo \ {filename},
                         CleanupOne(st, filename, active, cutoff_date, fails),
                         active, cutoff_date, fails)

\* cleanup_old_logs(days_to_keep): the directories after the pass, the names
\* printed as archived, the names an error was logged for, and the exception
\* that left the function, if any (os.listdir itself is outside every try)
cleanup_old_logs(dirs, active, clock, days_to_keep, outcome, fails) ==
    LET st0 == [logs |-> dirs.logs, arch |-> dirs.arch, stdout |-> <<>>,
                errors |-> <<>>, raised |-> "none"]
    IN  IF outcome = "listdir_error" THEN [st0 EXCEPT !.raised = "OSError"]
        ELSE CleanupLoop(DOMAIN dirs.logs, st0, active,
                         CutoffDate(clock, days_to_keep), fails)

\* setup_logger(): the directories are made, the handlers are set (the file
\* handler opens the day's file), and the cleanup runs with its default
setup_logger(dirs, active, clock, outcome, fails) ==
    IF outcome \in {"makedirs_error", "open_error"}
    THEN [logs |-> dirs.logs, arch |-> dirs.arch, stdout |-> <<>>,
          errors |-> <<>>, raised |-> "OSError"]
    ELSE IF outcome = "interrupt"
    THEN [logs |-> dirs.logs, arch |-> dirs.arch, stdout |-> <<>>,
          errors |-> <<>>, raised |-> "KeyboardInterrupt"]
    ELSE cleanup_old_logs([dirs EXCEPT !.logs = FileHandler(@, active, clock)],
                          active, clock, DEFAULT_DAYS_TO_KEEP, outcome, fails)

\* what setup_logger can meet
SetupOutcomes == {"ok", "makedirs_error", "open_error", "listdir_error", "interrupt"}

\* the cleanup's logged errors, one record per file
RECURSIVE ErrorRecords(_)
ErrorRecords(errors) ==
    IF errors = <<>> THEN <<>>
    ELSE <<CLEANUP_ERROR>> \o ErrorRecords(Tail(errors))

Range(s) == {s[i] : i \in DOMAIN s}

\* the record of a launch's setup_logger, kept for the properties
PassRecord(r, clock, outcome, fails, before, previous) ==
    [status |-> IF r.raised = "none" THEN "ok" ELSE "raised",
     outcome |-> outcome,
     clock |-> clock,
     fails |-> fails,
     archived |-> Range(r.stdout),
     errors |-> Range(r.errors),
     before |-> before,
     again |-> /\ previous.status = "ok"
               /\ r.raised = "none"
               /\ previous.clock = clock
               /\ previous.fails = fails,
     prevArchived |-> previous.archived]

NoPass ==
    [status |-> "none", outcome |-> "none", clock |-> -1,
     fails |-> [stat |-> {}, move |-> {}], archived |-> {}, errors |-> {},
     before |-> [logs |-> EmptyDir, arch |-> EmptyDir], again |-> FALSE,
     prevArchived |-> {}]


---------------------------------------------------------------------------
(* The file system and the clock at the first launch *)

\* the first clock reading: the retention window and one day more have passed
Now0 == (DEFAULT_DAYS_TO_KEEP + 1) * TicksPerDay

\* modification times: older than the first cutoff, equal to it, and fresh
StaleTime == CutoffDate(Now0, DEFAULT_DAYS_TO_KEEP) - 1
BoundaryTime == CutoffDate(Now0, DEFAULT_DAYS_TO_KEEP)
FreshTime == Now0
MTimes == {StaleTime, BoundaryTime, FreshTime}

TodayLog == LogFilename(Now0)
OldLog == [stem |-> "simulator_", day |-> 0, ext |-> LOG_SUFFIX]
AppLog == [stem |-> "app", day |-> -1, ext |-> LOG_SUFFIX]
Notes == [stem |-> "notes", day |-> -1, ext |-> ".txt"]
Names == {TodayLog, OldLog, AppLog, Notes}

\* the modification times each file is given when it is there
MTimesOf(name) ==
    CASE name = TodayLog -> {StaleTime}
      [] name = OldLog -> MTimes
      [] name = AppLog -> {StaleTime, FreshTime}
      [] OTHER -> {StaleTime}

\* the contents of logs/ over Names, and two contents of logs/archive/
AllLogDirs ==
    UNION {{dir \in [S -> MTimes] : \A f \in S : dir[f] \in MTimesOf(f)} :
             S \in SUBSET Names}
AllArchDirs == {EmptyDir, [f \in {OldLog} |-> StaleTime]}
AllDirs == [logs : AllLogDirs, arch : AllArchDirs]

\* the file systems the simulator is launched in: an empty logs/, and one with
\* a backdated file of the day, a stale log file and a stale text file
BusyLogDir == [f \in {TodayLog, OldLog, Notes} |-> StaleTime]
SimDirs == {[logs |-> EmptyDir, arch |-> EmptyDir],
            [logs |-> BusyLogDir, arch |-> EmptyDir]}

\* what a launch's setup_logger can meet, [outcome, fails]: the step of
\* setup_logger that raises, if any, and otherwise the entries whose getmtime
\* raises and those whose move raises, among the log files of other days
NoFails == [stat |-> {}, move |-> {}]
PassInputs(dir, active) ==
    LET logFiles == {f \in DOMAIN dir : f.ext = LOG_SUFFIX /\ f # active}
    IN  [outcome : SetupOutcomes \ {"ok"}, fails : {NoFails}]
        \cup {[outcome |-> "ok", fails |-> fails] :
                 fails \in {x \in [stat : SUBSET logFiles, move : SUBSET logFiles] :
                               x.stat \cap x.move = {}}}

---------------------------------------------------------------------------
(* logger_utility.py run as a script, and the clock *)

\* python logger_utility.py: the module constants are computed, setup_logger
\* runs, and two records are logged
LoggerUtilityMain ==
    /\ runs < MaxRuns
    /\ pc = "start"
    /\ \E input \in PassInputs(fs.logs, LogFilename(now)) :
      \E r \in {setup_logger(fs, LogFilename(now), now, input.outcome, input.fails)} :
        LET active == LogFilename(now)
            emitted == IF r.raised = "none"
                       THEN ErrorRecords(r.errors) \o <<TEST_ENTRY, TEST_WARNING>>
                       ELSE ErrorRecords(r.errors)
        IN  /\ LOG_FILENAME' = active
            /\ fs' = [logs |-> IF emitted # <<>> THEN Touch(r.logs, active, now)
                               ELSE r.logs,
                      arch |-> r.arch]
            /\ log' = emitted
            /\ stdout' = r.stdout
            /\ lastPass' = PassRecord(r, now, input.outcome, input.fails, fs, lastPass)
    /\ runs' = runs + 1
    /\ UNCHANGED <<now, simVars>>

\* time passes between launches
ClockAdvance ==
    /\ now < Now0 + MaxAdvance
    /\ pc = "start"
    /\ now' = now + 1
    /\ UNCHANGED <<fs, LOG_FILENAME, log, stdout, runs, lastPass, simVars>>

---------------------------------------------------------------------------
(* Simulator.py: load_configuration *)

Digits == {"0", "1", "2", "3", "4", "5", "6", "7", "8", "9"}

DigitValue(c) ==
    CASE c = "0" -> 0 [] c = "1" -> 1 [] c = "2" -> 2 [] c = "3" -> 3
      [] c = "4" -> 4 [] c = "5" -> 5 [] c = "6" -> 6 [] c = "7" -> 7
      [] c = "8" -> 8 [] c = "9" -> 9

\* the digits of an integer literal, after its sign
Unsigned(s) == IF s # <<>> /\ s[1] \in {"-", "+"} THEN Tail(s) ELSE s

\* whether int(s) accepts the string: an optional sign, then one digit or more
IsIntLiteral(s) ==
    /\ Unsigned(s) # <<>>
    /\ \A i \in DOMAIN Unsigned(s) : Unsigned(s)[i] \in Digits

RECURSIVE DigitsValue(_)
DigitsValue(s) ==
    IF s = <<>> THEN 0
    ELSE 10 * DigitsValue(SubSeq(s, 1, Len(s) - 1)) + DigitValue(s[Len(s)])

\* int(s) for a string int accepts
IntOf(s) == IF s[1] = "-" THEN 0 - DigitsValue(Unsigned(s)) ELSE DigitsValue(Unsigned(s))

\* try: sleep_time = int(os.getenv("SLEEP_TIME", 5)) except ValueError: warn, 5
\* [value, warned]
ParseSleepTime(e) ==
    IF "SLEEP_TIME" \notin DOMAIN e
    THEN [value |-> DEFAULT_SLEEP_TIME, warned |-> FALSE]
    ELSE IF IsIntLiteral(e.SLEEP_TIME)
    THEN [value |-> IntOf(e.SLEEP_TIME), warned |-> FALSE]
    ELSE [value |-> DEFAULT_SLEEP_TIME, warned |-> TRUE]

\* if not mongo_uri: unset, or the empty string
UriMissingNever(e) == FALSE
UriMissing(e) == "MONGO_URI" \notin DOMAIN e \/ e.MONGO_URI = <<>>

\* load_configuration(): the records it logs, its sleep_time, and what it raises
load_configuration(e) ==
    LET parsed == ParseSleepTime(e)
        warning == IF parsed.warned THEN <<SLEEP_WARNING>> ELSE <<>>
    IN  IF UriMissing(e)
        THEN [logged |-> warning \o <<URI_CRITICAL>>, sleep_time |-> parsed.value,
              raised |-> "ValueError"]
        ELSE [logged |-> warning \o <<CONFIG_LOADED>>, sleep_time |-> parsed.value,
              raised |-> "none"]

---------------------------------------------------------------------------
(* Simulator.py: the handlers *)

\* the except clauses around the inserts: the record each logs, and whether the
\* exception is caught there
inner_except_no_catch_all(err) ==
    CASE err = "DuplicateKeyError" -> [caught |-> TRUE, record |-> DUPLICATE_WARNING]
      [] err = "WriteConcernError" -> [caught |-> TRUE, record |-> WRITE_CONCERN_ERROR]
      [] OTHER -> [caught |-> FALSE, record |-> UNKNOWN_INSERT_ERROR]
inner_except(err) ==
    CASE err = "DuplicateKeyError" -> [caught |-> TRUE, record |-> DUPLICATE_WARNING]
      [] err = "WriteConcernError" -> [caught |-> TRUE, record |-> WRITE_CONCERN_ERROR]
      [] err = "KeyboardInterrupt" -> [caught |-> FALSE, record |-> UNKNOWN_INSERT_ERROR]
      [] OTHER -> [caught |-> TRUE, record |-> UNKNOWN_INSERT_ERROR]

\* the except clauses around the loop: both end run_simulation normally
outer_except_all_critical(err) == LOOP_CRITICAL
outer_except(err) ==
    IF err = "KeyboardInterrupt" THEN STOPPED_BY_USER ELSE LOOP_CRITICAL

\* the except clauses of the entry point: the records logged, and what stays in
\* flight (KeyboardInterrupt is no Exception)
main_except(err) ==
    CASE err = "ValueError" -> [logged |-> <<TERMINATED_CONFIG>>, exc |-> "none"]
      [] err = "ConnectionFailure" -> [logged |-> <<TERMINATED_CONNECTION>>, exc |-> "none"]
      [] err = "KeyboardInterrupt" -> [logged |-> <<>>, exc |-> "KeyboardInterrupt"]
      [] OTHER -> [logged |-> <<TERMINATED_FATAL>>, exc |-> "none"]

\* finally: the termination banner
finally_skipped(l) == l
finally_clause(l) == Append(l, END_BANNER)

\* collection.insert_one(document), collection.count_documents({})
insert_one_lost(col, doc) == col
insert_one(col, doc) == col (+) SetToBag({doc})
count_documents(col) == BagCardinality(col)

\* whether the store rejects the document as a duplicate
DuplicateKey(col, doc) == uniqueIndex /\ BagIn(doc, col)

\* time.sleep(secs) raises ValueError for a negative length
SleepRaises(secs) == secs < 0

---------------------------------------------------------------------------
(* Simulator.py: the process *)

LoopPcs == {"generate", "insert_customer", "insert_claim", "report", "sleep"}
SetupPcs == {"load", "connect", "run"}

NotStopped == [at |-> "", by |-> "none"]

\* records are written through the file handler too
Emit(records) ==
    /\ log' = log \o records
    /\ fs' = IF records # <<>>
             THEN [fs EXCEPT !.logs = Touch(@, LOG_FILENAME, now)]
             ELSE fs

\* an exception leaves the loop body, after the records logged so far: one of
\* the loop's own handlers logs its record and run_simulation returns
LeaveLoop(err, logged) ==
    /\ Emit(logged \o <<outer_except(err)>>)
    /\ pc' = "finally"
    /\ stopped' = [at |-> pc, by |-> err]
    /\ exc' = "none"

\* an exception raised inside the try around the inserts and the counts
RaiseInTick(err, logged) ==
    /\ tickError' = err
    /\ IF inner_except(err).caught
       THEN /\ Emit(logged \o <<inner_except(err).record>>)
            /\ pc' = "sleep"
            /\ UNCHANGED <<stopped, exc>>
       ELSE LeaveLoop(err, logged)

\* an exception reaches the entry point's handlers and the process goes to finally
RaiseInMain(err, logged) ==
    /\ Emit(logged \o main_except(err).logged)
    /\ exc' = main_except(err).exc
    /\ pc' = "finally"

\* logger = setup_logger(), before the try: an exception out of it ends the
\* process, nothing of the entry point having run
MainStart ==
    /\ pc = "start"
    /\ runs = 0
    /\ \E input \in PassInputs(fs.logs, LogFilename(now)) :
      \E r \in {setup_logger(fs, LogFilename(now), now, input.outcome, input.fails)} :
        LET active == LogFilename(now)
            emitted == ErrorRecords(r.errors)
        IN  /\ LOG_FILENAME' = active
            /\ fs' = [logs |-> IF emitted # <<>> THEN Touch(r.logs, active, now)
                               ELSE r.logs,
                      arch |-> r.arch]
            /\ log' = emitted
            /\ stdout' = r.stdout
            /\ lastPass' = PassRecord(r, now, input.outcome, input.fails, fs, lastPass)
            /\ pc' = IF r.raised = "none" THEN "banner" ELSE "aborted"
            /\ exc' = r.raised
    /\ runs' = runs + 1
    /\ UNCHANGED <<now, givenVars, sleep_time, connects, customers_col,
                   claims_col, ticks, insertFailed, tickError, stopped>>

\* logger.info(startup banner), still before the try
StartBanner ==
    /\ pc = "banner"
    /\ Emit(<<START_BANNER>>)
    /\ pc' = "load"
    /\ UNCHANGED <<launchVars, givenVars, exc, sleep_time, connects,
                   customers_col, claims_col, ticks, insertFailed, tickError,
                   stopped>>

\* Ctrl+C outside the try, at the startup banner or in the finally clause:
\* nothing catches it and nothing more is logged (one interrupt to a launch)
OutsideInterrupt ==
    /\ pc \in {"banner", "finally"}
    /\ exc = "none"
    /\ stopped.by # "KeyboardInterrupt"
    /\ exc' = "KeyboardInterrupt"
    /\ pc' = "aborted"
    /\ UNCHANGED <<launchVars, fs, log, givenVars, sleep_time, connects,
                   customers_col, claims_col, ticks, insertFailed, tickError,
                   stopped>>

\* mongo_uri, sleep_time, db_name = load_configuration()
LoadConfiguration ==
    /\ pc = "load"
    /\ LET r == load_configuration(env)
       IN  /\ sleep_time' = r.sleep_time
           /\ IF r.raised = "none"
              THEN /\ Emit(r.logged)
                   /\ pc' = "connect"
                   /\ exc' = exc
              ELSE RaiseInMain(r.raised, r.logged)
    /\ UNCHANGED <<launchVars, givenVars, connects, customers_col, claims_col,
                   ticks, insertFailed, tickError, stopped>>

\* customers_col, claims_col = setup_mongo_connection(mongo_uri, db_name)
SetupMongoConnection ==
    /\ pc = "connect"
    /\ connects' = connects + 1
    /\ \E outcome \in {"ok", "ConnectionFailure", "Exception"} :
        CASE outcome = "ok" ->
                /\ Emit(<<CONNECTING, CONNECTED>>)
                /\ pc' = "run"
                /\ exc' = exc
          [] outcome = "ConnectionFailure" ->
                RaiseInMain(outcome, <<CONNECTING, CONNECTION_CRITICAL>>)
          [] OTHER ->
                RaiseInMain(outcome, <<CONNECTING, UNEXPECTED_CRITICAL>>)
    /\ UNCHANGED <<launchVars, givenVars, sleep_time, customers_col,
                   claims_col, ticks, insertFailed, tickError, stopped>>

\* run_simulation: the record logged before the loop is entered
RunSimulation ==
    /\ pc = "run"
    /\ Emit(<<LOOP_STARTING>>)
    /\ pc' = "generate"
    /\ UNCHANGED <<launchVars, givenVars, exc, sleep_time, connects,
                   customers_col, claims_col, ticks, insertFailed, tickError,
                   stopped>>

\* Ctrl+C before the loop's try: no handler of the entry point catches it
SetupInterrupt ==
    /\ pc \in SetupPcs
    /\ RaiseInMain("KeyboardInterrupt", <<>>)
    /\ UNCHANGED <<launchVars, givenVars, sleep_time, connects, customers_col,
                   claims_col, ticks, insertFailed, tickError, stopped>>

\* the ids generate_insurance_data can draw for a customer, and for a claim
CustomerIds == 1..MaxId
ClaimIds == 1..MaxId

\* customer, claim = generate_insurance_data(): nothing but the random source
\* is read or written; each id is drawn where it is first used, at its insert
Generate ==
    /\ pc = "generate"
    /\ ticks < MaxTicks
    /\ pc' = "insert_customer"
    /\ UNCHANGED <<launchVars, fs, log, givenVars, exc, sleep_time, connects,
                   customers_col, claims_col, ticks, insertFailed, tickError,
                   stopped>>

\* what an insert into col of doc can do, [err, applied]: the store rejects a
\* duplicate; it writes the document and acknowledges it, or writes it and
\* cannot confirm the write concern; or the call fails before the store writes
InsertOutcomes(col, doc) ==
    IF DuplicateKey(col, doc)
    THEN {[err |-> "DuplicateKeyError", applied |-> FALSE],
          [err |-> "Exception", applied |-> FALSE]}
    ELSE {[err |-> "none", applied |-> TRUE],
          [err |-> "WriteConcernError", applied |-> TRUE],
          [err |-> "Exception", applied |-> FALSE]}

\* customers_col.insert_one(customer)
InsertCustomer ==
    /\ pc = "insert_customer"
    /\ \E customer \in CustomerIds :
        \E o \in InsertOutcomes(customers_col, customer) :
            /\ customers_col' = IF o.applied
                                THEN insert_one(customers_col, customer)
                                ELSE customers_col
            /\ IF o.err = "none"
               THEN /\ pc' = "insert_claim"
                    /\ UNCHANGED <<log, fs, stopped, exc, insertFailed, tickError>>
               ELSE /\ RaiseInTick(o.err, <<>>)
                    /\ insertFailed' = TRUE
    /\ UNCHANGED <<launchVars, givenVars, sleep_time, connects, claims_col, ticks>>

\* claims_col.insert_one(claim)
InsertClaim ==
    /\ pc = "insert_claim"
    /\ \E claim \in ClaimIds :
        \E o \in InsertOutcomes(claims_col, claim) :
            /\ claims_col' = IF o.applied THEN insert_one(claims_col, claim)
                             ELSE claims_col
            /\ IF o.err = "none"
               THEN /\ pc' = "report"
                    /\ UNCHANGED <<log, fs, stopped, exc, insertFailed, tickError>>
               ELSE /\ RaiseInTick(o.err, <<>>)
                    /\ insertFailed' = TRUE
    /\ UNCHANGED <<launchVars, givenVars, sleep_time, connects, customers_col,
                   ticks>>

\* the success record, then the two counts, which are read before either is
\* logged; a count that raises is caught by the handlers around the inserts
Report ==
    /\ pc = "report"
    /\ \E outcome \in {"ok", "Exception"} :
        IF outcome = "ok"
        THEN /\ Emit(<<INSERTED,
                       CountMsg("Customer Count", count_documents(customers_col)),
                       CountMsg("Claim Count", count_documents(claims_col))>>)
             /\ pc' = "sleep"
             /\ UNCHANGED <<stopped, exc, tickError>>
        ELSE RaiseInTick(outcome, <<INSERTED>>)
    /\ UNCHANGED <<launchVars, givenVars, sleep_time, connects, customers_col,
                   claims_col, ticks, insertFailed>>

\* time.sleep(sleep_time), then the next iteration
Sleep ==
    /\ pc = "sleep"
    /\ IF SleepRaises(sleep_time)
       THEN /\ LeaveLoop("ValueError", <<>>)
            /\ UNCHANGED <<ticks, tickError>>
       ELSE /\ pc' = "generate"
            /\ ticks' = ticks + 1
            /\ tickError' = "none"
            /\ UNCHANGED <<log, fs, stopped, exc>>
    /\ UNCHANGED <<launchVars, givenVars, sleep_time, connects, customers_col,
                   claims_col, insertFailed>>

\* what a collection can hold once an insert_one in flight is interrupted: the
\* document reached the store, or it did not
Interrupted(col, ids) ==
    {col} \cup {insert_one(col, doc) : doc \in {d \in ids : ~DuplicateKey(col, d)}}

\* Ctrl+C inside the loop's try, wherever the loop is
LoopInterrupt ==
    /\ pc \in LoopPcs
    /\ \E col \in IF pc = "insert_customer"
                 THEN Interrupted(customers_col, CustomerIds)
                 ELSE {customers_col} :
        customers_col' = col
    /\ \E col \in IF pc = "insert_claim"
                 THEN Interrupted(claims_col, ClaimIds)
                 ELSE {claims_col} :
        claims_col' = col
    /\ LeaveLoop("KeyboardInterrupt", <<>>)
    /\ UNCHANGED <<launchVars, givenVars, sleep_time, connects, ticks,
                   insertFailed, tickError>>

\* finally: logger.info(termination banner), and the process ends
Finally ==
    /\ pc = "finally"
    /\ Emit(finally_clause(<<>>))
    /\ pc' = "done"
    /\ UNCHANGED <<launchVars, givenVars, exc, sleep_time, connects,
                   customers_col, claims_col, ticks, insertFailed, tickError,
                   stopped>>

---------------------------------------------------------------------------
(* The specifications *)

\* the environments: each variable unset, or set to one of a few strings
NoEnv == [v \in {} |-> <<>>]
URI == <<"m", "o", "n", "g", "o">>
SleepStrings == {<<"a", "b", "c">>, <<"-", "3">>, <<"1", "0">>}
Envs ==
    [MONGO_URI : {<<>>, URI}, SLEEP_TIME : SleepStrings]
    \cup [MONGO_URI : {<<>>, URI}]
    \cup [SLEEP_TIME : SleepStrings]
    \cup {NoEnv}

InitProcess ==
    /\ now = Now0
    /\ LOG_FILENAME = LogFilename(Now0)
    /\ log = <<>>
    /\ stdout = <<>>
    /\ runs = 0
    /\ lastPass = NoPass
    /\ pc = "start"
    /\ exc = "none"
    /\ sleep_time = DEFAULT_SLEEP_TIME
    /\ connects = 0
    /\ customers_col = [id \in {i \in {1} : preloaded > 0} |-> preloaded]
    /\ claims_col = [id \in {i \in {1} : preloaded > 0} |-> preloaded]
    /\ ticks = 0
    /\ insertFailed = FALSE
    /\ tickError = "none"
    /\ stopped = NotStopped

\* Simulator.py launched once
Init ==
    /\ fs \in SimDirs
    /\ env \in Envs
    /\ uniqueIndex \in BOOLEAN
    /\ preloaded \in {0, 1}
    /\ InitProcess

Next ==
    \/ MainStart
    \/ StartBanner
    \/ OutsideInterrupt
    \/ LoadConfiguration
    \/ SetupMongoConnection
    \/ RunSimulation
    \/ SetupInterrupt
    \/ Generate
    \/ InsertCustomer
    \/ InsertClaim
    \/ Report
    \/ Sleep
    \/ LoopInterrupt
    \/ Finally

Spec == Init /\ [][Next]_vars

\* logger_utility.py launched again and again, over every content of logs/
InitLogs ==
    /\ fs \in AllDirs
    /\ env = NoEnv
    /\ uniqueIndex = FALSE
    /\ preloaded = 0
    /\ InitProcess

NextLogs ==
    \/ LoggerUtilityMain
    \/ ClockAdvance

SpecLogs == InitLogs /\ [][NextLogs]_vars

---------------------------------------------------------------------------
(* Properties of the archival pass, under SpecLogs *)

\* C1: the archival pass never moves the file named as the active day's log:
\* whatever its modification time, after any number of launches the file the
\* handler opened is in logs/, it is not in logs/archive/, and no pass has
\* printed it as archived.
C1_ActiveLogNeverArchived ==
    /\ LOG_FILENAME \notin DOMAIN fs.arch
    /\ LOG_FILENAME \notin Range(stdout)
    /\ LOG_FILENAME \notin lastPass.archived
    /\ lastPass.outcome \in {"ok", "listdir_error"}
            => LOG_FILENAME \in DOMAIN fs.logs
    /\ (lastPass.status = "ok" /\ LOG_FILENAME \in DOMAIN lastPass.before.logs)
            => fs.logs[LOG_FILENAME] >= lastPass.before.logs[LOG_FILENAME]

\* a second launch, after one that raised, finds the active file backdated
\* beyond the cutoff, and archives another file while it leaves that one
C1_BackdatedActiveLogKept ==
    /\ runs >= 2
    /\ lastPass.status = "ok"
    /\ LOG_FILENAME \in DOMAIN lastPass.before.logs
    /\ lastPass.before.logs[LOG_FILENAME]
         < lastPass.clock - DEFAULT_DAYS_TO_KEEP * TicksPerDay
    /\ lastPass.archived # {}

\* C2: the archival pass is idempotent: a pass that follows a pass, at the same
\* clock reading and with the same files failing, archives nothing and leaves
\* logs/ and logs/archive/ exactly as the first pass left them.
C2_ArchivalIdempotent ==
    lastPass.again =>
        /\ lastPass.archived = {}
        /\ stdout = <<>>
        /\ DOMAIN fs.arch = DOMAIN lastPass.before.arch
        /\ DOMAIN fs.logs = DOMAIN lastPass.before.logs
        /\ fs = lastPass.before

\* a second pass right after a pass that archived a file
C2_SecondPassAfterArchiving ==
    /\ lastPass.again
    /\ lastPass.prevArchived # {}
    /\ lastPass.prevArchived \subseteq DOMAIN fs.arch

\* C8: a failure on one file is not fatal to the archival pass: when getmtime
\* or the move raises for a file, one error is logged for it, the file stays in
\* logs/ as it was, every other stale log file is still archived, and the
\* pass returns normally.
C8_PerFileFailureNotFatal ==
    lastPass.outcome = "ok" =>
        LET before == lastPass.before
            stale == {f \in DOMAIN before.logs :
                        /\ f.ext = ".log"
                        /\ f # LOG_FILENAME
                        /\ before.logs[f]
                             < lastPass.clock - DEFAULT_DAYS_TO_KEEP * TicksPerDay}
            failed == lastPass.fails.stat \cup (lastPass.fails.move \cap stale)
        IN  /\ lastPass.status = "ok"
            /\ lastPass.errors = failed
            /\ Cardinality({i \in DOMAIN log : log[i] = CLEANUP_ERROR})
                    = Cardinality(failed)
            /\ \A f \in failed :
                    /\ f \in DOMAIN fs.logs
                    /\ fs.logs[f] = before.logs[f]
                    /\ f \notin lastPass.archived
                    /\ f \in DOMAIN fs.arch => f \in DOMAIN before.arch
            /\ \A f \in stale \ failed :
                    /\ f \in lastPass.archived
                    /\ f \notin DOMAIN fs.logs
                    /\ f \in DOMAIN fs.arch

\* a pass in which one file failed and another was archived
C8_FailureAndArchiveInOnePass ==
    /\ lastPass.outcome = "ok"
    /\ lastPass.status = "ok"
    /\ lastPass.errors # {}
    /\ lastPass.archived # {}
    /\ lastPass.errors \subseteq DOMAIN fs.logs

\* C9 as stated: after a pass with no errors, every file of logs/ other than
\* the active one that is older than the cutoff is in logs/archive/, whatever
\* its name or extension, and no file within the window has been moved.
C9_EveryStaleFileArchived ==
    (lastPass.status = "ok" /\ lastPass.errors = {}) =>
        \A f \in DOMAIN lastPass.before.logs \ {LOG_FILENAME} :
            IF lastPass.before.logs[f]
                 < lastPass.clock - DEFAULT_DAYS_TO_KEEP * TicksPerDay
            THEN f \in DOMAIN fs.arch /\ f \notin DOMAIN fs.logs
            ELSE f \in DOMAIN fs.logs /\ f \notin lastPass.archived

\* C9, amended: after a pass with no errors, the files moved to logs/archive/
\* are exactly the files of logs/ whose name ends with ".log", is not the
\* active one, and whose modification time is older than the cutoff; they keep
\* their modification times, and every other file stays where it was.
C9_EveryStaleLogFileArchived ==
    (lastPass.status = "ok" /\ lastPass.errors = {}) =>
        LET before == lastPass.before
            stale == {f \in DOMAIN before.logs :
                        /\ f.ext = ".log"
                        /\ f # LOG_FILENAME
                        /\ before.logs[f]
                             < lastPass.clock - DEFAULT_DAYS_TO_KEEP * TicksPerDay}
        IN  /\ lastPass.archived = stale
            /\ DOMAIN fs.logs = (DOMAIN before.logs \cup {LOG_FILENAME}) \ stale
            /\ DOMAIN fs.arch = DOMAIN before.arch \cup stale
            /\ \A f \in stale : fs.arch[f] = before.logs[f]
            /\ \A f \in DOMAIN before.arch \ stale : fs.arch[f] = before.arch[f]
            /\ \A f \in DOMAIN before.logs \ (stale \cup {LOG_FILENAME}) :
                    fs.logs[f] = before.logs[f]

\* a pass that archived a log file, left a log file modified exactly at the
\* cutoff, and left a stale file that is no log file
C9_StaleTextFileStays ==
    /\ lastPass.status = "ok"
    /\ lastPass.errors = {}
    /\ lastPass.archived # {}
    /\ Notes \in DOMAIN fs.logs
    /\ fs.logs[Notes] < lastPass.clock - DEFAULT_DAYS_TO_KEEP * TicksPerDay
    /\ \E f \in DOMAIN fs.logs \ {LOG_FILENAME} :
            /\ f.ext = ".log"
            /\ fs.logs[f] = lastPass.clock - DEFAULT_DAYS_TO_KEEP * TicksPerDay

---------------------------------------------------------------------------
(* Properties of the simulator process, under Spec *)

\* C3: when the connection string is absent (unset or empty),
\* load_configuration fails with the configuration error and the process never
\* contacts the store: no connection step, no loop step and no insert occurs,
\* and an uninterrupted run ends with the critical configuration records.
C3_NoConnectionWithoutUri ==
    ("MONGO_URI" \notin DOMAIN env \/ env.MONGO_URI = <<>>) =>
        /\ connects = 0
        /\ pc \notin {"connect", "run"} \cup LoopPcs
        /\ \A i \in DOMAIN log :
                log[i] \notin {CONFIG_LOADED, CONNECTING, CONNECTED,
                               LOOP_STARTING, INSERTED}
        /\ BagCardinality(customers_col) = preloaded
        /\ BagCardinality(claims_col) = preloaded
        /\ (pc \in {"finally", "done"} /\ exc = "none") =>
                /\ \E i \in DOMAIN log : log[i] = URI_CRITICAL
                /\ \E i \in DOMAIN log : log[i] = TERMINATED_CONFIG
        /\ pc = "done" => exc \in {"none", "KeyboardInterrupt"}

\* a run without the connection string that ended on the configuration error
C3_EndedOnConfigurationError ==
    /\ "MONGO_URI" \notin DOMAIN env
    /\ pc = "done"
    /\ exc = "none"
    /\ \E i \in DOMAIN log : log[i] = TERMINATED_CONFIG

\* C4 as stated: once load_configuration has returned, its sleep interval is
\* non-negative, and a supplied value that is no non-negative integer (text
\* that is no number, or a negative integer) has given the default 5 with a
\* warning logged.
C4_SleepIntervalNonNegative ==
    pc \in {"connect", "run"} \cup LoopPcs =>
        /\ sleep_time >= 0
        /\ ( /\ "SLEEP_TIME" \in DOMAIN env
             /\ \E i \in DOMAIN env.SLEEP_TIME : env.SLEEP_TIME[i] \notin Digits )
            => /\ sleep_time = 5
               /\ \E i \in DOMAIN log : log[i] = SLEEP_WARNING

\* C5: an insert failure never stops the loop: after a failed customer or
\* claim insert the failure is the last record logged (a warning for a
\* duplicate key, an error otherwise) and the loop is at its sleep, running;
\* the loop is never left through an insert's exception, and none reaches
\* the entry point.
C5_InsertFailureNeverStopsLoop ==
    /\ stopped.by \notin {"DuplicateKeyError", "WriteConcernError", "Exception"}
    /\ stopped.by \notin {"none", "KeyboardInterrupt"} => stopped.at = "sleep"
    /\ exc \notin {"DuplicateKeyError", "WriteConcernError", "Exception"}
    /\ tickError # "none" =>
            \/ pc = "sleep" /\ stopped = NotStopped
            \/ pc \in {"finally", "done", "aborted"} /\ stopped.at = "sleep"
    /\ (pc = "sleep" /\ tickError # "none") =>
            /\ log # <<>>
            /\ log[Len(log)].level
                    = IF tickError = "DuplicateKeyError" THEN "WARNING" ELSE "ERROR"
            /\ tickError = "DuplicateKeyError" => log[Len(log)] = DUPLICATE_WARNING
            /\ tickError = "WriteConcernError" => log[Len(log)] = WRITE_CONCERN_ERROR
            /\ tickError = "Exception" => log[Len(log)] = UNKNOWN_INSERT_ERROR

\* a tick started after a tick whose insert failed on a duplicate key
C5_NextTickAfterFailure ==
    /\ pc = "insert_customer"
    /\ ticks >= 1
    /\ insertFailed
    /\ stopped = NotStopped
    /\ \E i \in DOMAIN log : log[i] = DUPLICATE_WARNING

\* C6: from an empty store and with no insert failure, after N completed
\* ticks each collection holds exactly N documents, the customer being
\* inserted before the claim, and the counts logged in the Nth tick are both N.
C6_CountsMatchTicks ==
    (preloaded = 0 /\ ~insertFailed /\ stopped = NotStopped) =>
        /\ pc \notin {"insert_claim", "report", "sleep"} =>
                /\ count_documents(customers_col) = ticks
                /\ count_documents(claims_col) = ticks
        /\ pc = "insert_claim" =>
                /\ count_documents(customers_col) = ticks + 1
                /\ count_documents(claims_col) = ticks
        /\ pc \in {"report", "sleep"} =>
                /\ count_documents(customers_col) = ticks + 1
                /\ count_documents(claims_col) = ticks + 1
        /\ (pc = "sleep" /\ tickError = "none") =>
                /\ Len(log) >= 2
                /\ log[Len(log) - 1] = CountMsg("Customer Count", ticks + 1)
                /\ log[Len(log)] = CountMsg("Claim Count", ticks + 1)

\* the counts of the second tick have been logged
C6_SecondTickCounted ==
    /\ preloaded = 0
    /\ ~insertFailed
    /\ pc = "sleep"
    /\ tickError = "none"
    /\ ticks >= 1
    /\ log[Len(log)] = CountMsg("Claim Count", 2)

\* C7 as stated: on every path of the process, a failure of the logger's
\* initialization included, the startup banner is the first record logged and
\* the termination banner is the last one when the process has ended.
C7_BannersOnEveryPath ==
    pc \in {"done", "aborted"} =>
        /\ log # <<>>
        /\ log[1] = START_BANNER
        /\ log[Len(log)] = END_BANNER

\* C7, amended: when setup_logger has returned, the startup banner is logged
\* before any step of the try block, only the cleanup's error records coming
\* before it, and every path through the try block (configuration error,
\* connection error, unrecoverable loop error, interrupt, return) ends in the
\* finally clause, whose termination banner is the last record logged; when
\* setup_logger raises, the process ends with that exception and neither
\* banner, and only an interrupt outside the try block ends it otherwise.
C7_BannersAroundTryBlock ==
    /\ pc \in SetupPcs \cup LoopPcs \cup {"finally", "done"} =>
            \E i \in DOMAIN log :
                /\ log[i] = START_BANNER
                /\ \A j \in 1..(i - 1) : log[j] = CLEANUP_ERROR
                /\ \A j \in (i + 1)..Len(log) : log[j] # START_BANNER
    /\ pc = "done" =>
            /\ log[Len(log)] = END_BANNER
            /\ \A j \in 1..(Len(log) - 1) : log[j] # END_BANNER
    /\ pc # "done" => \A j \in DOMAIN log : log[j] # END_BANNER
    /\ lastPass.status = "raised" =>
            /\ pc = "aborted"
            /\ exc \in {"OSError", "KeyboardInterrupt"}
            /\ log = <<>>
    /\ (pc = "aborted" /\ lastPass.status = "ok") =>
            /\ exc = "KeyboardInterrupt"
            /\ stopped.by # "KeyboardInterrupt"

\* a run whose cleanup logged an error before the startup banner and whose
\* loop ended on an error it could not recover from
C7_EndedAfterLoopError ==
    /\ pc = "done"
    /\ log[1] = CLEANUP_ERROR
    /\ stopped.by = "ValueError"
    /\ \E i \in DOMAIN log : log[i] = LOOP_CRITICAL

\* C10 as stated: an interrupt stops the loop only at a tick boundary, never
\* while the customer insert or the claim insert of a tick is still to come
\* or in flight.
C10_InterruptOnlyAtTickBoundary ==
    stopped.by = "KeyboardInterrupt" =>
        stopped.at \notin {"insert_customer", "insert_claim"}

\* C10, amended: an interrupt stops the loop wherever it arrives, also
\* between the customer insert and the claim insert of a tick, the customer
\* then being stored and the claim stored only if its insert was in flight and
\* reached the store; wherever it stops, the loop logs the stop message at
\* INFO as its last record, logs no critical record, and returns normally.
C10_InterruptStopsLoopAnywhere ==
    stopped.by = "KeyboardInterrupt" =>
        /\ stopped.at \in LoopPcs
        /\ pc \in {"finally", "done"}
        /\ exc = "none"
        /\ \A i \in DOMAIN log : log[i].level # "CRITICAL"
        /\ pc = "finally" =>
                /\ log[Len(log)] = STOPPED_BY_USER
                /\ log[Len(log)].level = "INFO"
        /\ pc = "done" => log[Len(log) - 1] = STOPPED_BY_USER
        /\ (stopped.at = "insert_claim" /\ preloaded = 0 /\ ~insertFailed) =>
                /\ count_documents(customers_col) = ticks + 1
                /\ count_documents(claims_col) \in {ticks, ticks + 1}

\* a run stopped between the two inserts of its second tick: two customers
\* and one claim are stored
C10_StoppedBetweenInserts ==
    /\ stopped = [at |-> "insert_claim", by |-> "KeyboardInterrupt"]
    /\ pc = "done"
    /\ preloaded = 0
    /\ ~insertFailed
    /\ ticks = 1
    /\ count_documents(customers_col) = 2
    /\ count_documents(claims_col) = 1

=============================================================================
